---- MODULE Spec2Model ----
(***************************************************************************)
(* Model of abstractllm's provider interface (abstractllm/interface.py)    *)
(* and of the command line script query.py.                                *)
(*                                                                         *)
(*   Spec      the output-handler chain of AbstractLLMInterface            *)
(*   SpecCfg   the configuration layers and their resolution per call      *)
(*   SpecDet   repeated resolutions against one instance configuration     *)
(*   SpecCli   one run of query.py                                         *)
(***************************************************************************)
EXTENDS Integers, Sequences, FiniteSets, TLC

\* ---------------------------------------------------------------- bounds
MaxHandlers == 3
MaxChunks == 2
NumStrings == 2
NumValues == 2
MaxCalls == 2

\* ------------------------------------------------------- output handlers
VARIABLES output_handlers, lastOp, lastArg, given, returned, raised,
          invoked, logged, genLen, genPos, received

outVars == <<output_handlers, lastOp, lastArg, given, returned, raised,
             invoked, logged, genLen, genPos, received>>

\* ---------------------------------------------------------- configuration
VARIABLES defaults, config, configured, cfgOp, lastKw, lastSp, resolved,
          fetched, remembered, matched

cfgVars == <<defaults, config, configured, cfgOp, lastKw, lastSp, resolved,
             fetched, remembered, matched>>

\* ------------------------------------------------------------ query.py run
VARIABLES provider, argApiKey, argModel, argFile, argDebug, argImpl,
          environ, pc, cliConfig, createCalls, debugWritten, generateCalls,
          responsePrinted, errorPrinted, exitStatus, failed

argVars == <<provider, argApiKey, argModel, argFile, argDebug, argImpl,
             environ>>
cliVars == <<argVars, pc, cliConfig, createCalls, debugWritten,
             generateCalls, responsePrinted, errorPrinted, exitStatus,
             failed>>

vars == <<outVars, cfgVars, cliVars>>

\* OutputHandler subclasses, by what their handle() does with the output:
\*   quiet   returns without touching the output
\*   raiser  raises an Exception
\*   reader  iterates the output when it is a generator, to exhaustion
\*   peeker  takes one chunk with next() when the output is a generator;
\*           next() on an exhausted generator raises StopIteration
Handlers == {"quiet", "raiser", "reader", "peeker"}

NoHandler == "-"

\* The values a model output can take: a str, or a generator object.
StrOutputs == {[kind |-> "str", id |-> s] : s \in 1..NumStrings}
GenOutput == [kind |-> "gen", id |-> 0]
NoOutput == [kind |-> "none", id |-> 0]

\* handle(output) of handler h, the generator having yielded pos of its n
\* chunks so far: whether it raises, and the generator's position after.
handle(h, out, pos, n) ==
    CASE h = "quiet"  -> [raises |-> FALSE, pos |-> pos]
      [] h = "raiser" -> [raises |-> TRUE, pos |-> pos]
      [] h = "reader" -> [raises |-> FALSE,
                          pos |-> IF out.kind = "gen" THEN n ELSE pos]
      [] h = "peeker" -> IF out.kind = "gen"
                         THEN IF pos < n
                              THEN [raises |-> FALSE, pos |-> pos + 1]
                              ELSE [raises |-> TRUE, pos |-> pos]
                         ELSE [raises |-> FALSE, pos |-> pos]

\* list.append
add_output_handler(hs, h) == Append(hs, h)

\* h in list
Contains(hs, h) == \E i \in 1..Len(hs) : hs[i] = h

\* list.index: position of the first element equal to h
IndexOf(hs, h) == CHOOSE i \in 1..Len(hs) :
                     hs[i] = h /\ \A j \in 1..(i - 1) : hs[j] # h

\* list.remove: deletes the element at list.index(h)
ListRemoveAll(hs, h) == SelectSeq(hs, LAMBDA x : x # h)
ListRemove(hs, h) ==
    LET i == IndexOf(hs, h)
    IN SubSeq(hs, 1, i - 1) \o SubSeq(hs, i + 1, Len(hs))

remove_output_handler(hs, h) == IF Contains(hs, h) THEN ListRemove(hs, h) ELSE hs

clear_output_handlers(hs) == <<>>

\* The for loop of _handle_output from handler i on; acc carries the
\* handlers invoked, the failures logged and the generator position.
RECURSIVE HandlerLoopBreak(_, _, _, _, _)
HandlerLoopBreak(hs, i, out, n, acc) ==
    IF i > Len(hs) THEN acc
    ELSE LET r == handle(hs[i], out, acc.pos, n)
         IN IF r.raises
            THEN [invoked |-> Append(acc.invoked, hs[i]),
                  logged |-> Append(acc.logged, hs[i]), pos |-> r.pos]
            ELSE HandlerLoopBreak(hs, i + 1, out, n,
                    [invoked |-> Append(acc.invoked, hs[i]),
                     logged |-> acc.logged, pos |-> r.pos])

RECURSIVE HandlerLoop(_, _, _, _, _)
HandlerLoop(hs, i, out, n, acc) ==
    IF i > Len(hs) THEN acc
    ELSE LET r == handle(hs[i], out, acc.pos, n)
         IN HandlerLoop(hs, i + 1, out, n,
               [invoked |-> Append(acc.invoked, hs[i]),
                logged |-> IF r.raises THEN Append(acc.logged, hs[i])
                           ELSE acc.logged,
                pos |-> r.pos])

\* _handle_output: runs the loop, then returns the output it was given.
\* Every exception a handler raises is caught inside the loop.
HandleOutputUnguarded(hs, out, pos, n) ==
    LET acc == HandlerLoopBreak(hs, 1, out, n,
                  [invoked |-> <<>>, logged |-> <<>>, pos |-> pos])
    IN IF acc.logged # <<>>
       THEN [ret |-> NoOutput, raised |-> TRUE, invoked |-> acc.invoked,
             logged |-> <<>>, pos |-> acc.pos]
       ELSE [ret |-> out, raised |-> FALSE, invoked |-> acc.invoked,
             logged |-> acc.logged, pos |-> acc.pos]

handle_output(hs, out, pos, n) ==
    LET acc == HandlerLoop(hs, 1, out, n,
                  [invoked |-> <<>>, logged |-> <<>>, pos |-> pos])
    IN [ret |-> out, raised |-> FALSE, invoked |-> acc.invoked,
        logged |-> acc.logged, pos |-> acc.pos]

\* Iterating a generator that has yielded pos of its n chunks: the rest.
Iterate(pos, n) == [k \in 1..(n - pos) |-> pos + k]

\* ------------------------------------------------- configuration layers

\* Recognized parameter names (ModelParameter); the per-call keyword
\* overrides of generate(prompt, system_prompt, files, stream, **kwargs)
\* cannot name system_prompt, which is a parameter of its own.
Params == {"model", "temperature", "system_prompt"}
KwParams == {"model", "temperature"}

\* Python None / a key absent from a dict
NoValue == 0
Values == 1..NumValues

\* A dict over the parameter names; an absent key maps to NoValue.
Configs == [Params -> {NoValue} \cup Values]
Kwargs == {kw \in Configs : kw["system_prompt"] = NoValue}
EmptyConfig == [p \in Params |-> NoValue]

\* The defaults a provider declares for itself.
ProviderDefaults ==
    {EmptyConfig,
     [p \in Params |-> IF p = "system_prompt" THEN NoValue ELSE 1]}

\* dict.update: the later layer wins wherever it has a value
Merge(base, over) ==
    [p \in Params |-> IF over[p] # NoValue THEN over[p] ELSE base[p]]

\* ConfigurationManager
CM_update_config(cfg, upd) == Merge(cfg, upd)

CM_get_config(cfg) == cfg

CM_get_param(dflt, cfg, p, d) ==
    IF Merge(dflt, cfg)[p] # NoValue THEN Merge(dflt, cfg)[p] ELSE d

CM_get_provider_params(dflt, cfg, kw, sp) ==
    LET params == Merge(Merge(dflt, cfg), kw)
    IN IF sp # NoValue THEN [params EXCEPT !["system_prompt"] = sp]
       ELSE params

\* AbstractLLMInterface.__init__: ConfigurationManager(config or {})
ConfigOrEmpty(isNone, cfg) == IF isNone THEN EmptyConfig ELSE cfg

set_config(cfg, kwargs) == CM_update_config(cfg, kwargs)

update_config(cfg, upd) == CM_update_config(cfg, upd)

get_config(cfg) == CM_get_config(cfg)

get_param(dflt, cfg, p, d) == CM_get_param(dflt, cfg, p, d)

\* get_provider_params: the resolved parameter set it returns, and the
\* instance configuration it leaves behind.
GetProviderParamsNoSystemPrompt(dflt, cfg, kw, sp) ==
    [params |-> CM_get_provider_params(dflt, cfg, kw, NoValue),
     config |-> cfg]
GetProviderParamsStoring(dflt, cfg, kw, sp) ==
    [params |-> CM_get_provider_params(dflt, cfg, kw, sp),
     config |-> CM_update_config(cfg, kw)]
GetProviderParamsSticky(dflt, cfg, kw, sp) ==
    [params |-> CM_get_provider_params(dflt, cfg, kw, sp),
     config |-> IF sp # NoValue THEN [cfg EXCEPT !["system_prompt"] = sp]
                ELSE cfg]
get_provider_params(dflt, cfg, kw, sp) ==
    [params |-> CM_get_provider_params(dflt, cfg, kw, sp),
     config |-> cfg]

NoCall == [set |-> FALSE, kw |-> EmptyConfig, sp |-> NoValue,
           res |-> EmptyConfig, between |-> FALSE]

InitCfg ==
    /\ defaults \in ProviderDefaults
    /\ \E isNone \in BOOLEAN, c \in Configs :
          /\ (isNone => c = EmptyConfig)
          /\ config = ConfigOrEmpty(isNone, c)
    /\ configured = config
    /\ cfgOp = "init"
    /\ lastKw = EmptyConfig
    /\ lastSp = NoValue
    /\ resolved = EmptyConfig
    /\ fetched = EmptyConfig
    /\ remembered = NoCall
    /\ matched = FALSE

\* a resolved parameter set lives for one call
ForgetResolution ==
    /\ lastKw' = EmptyConfig
    /\ lastSp' = NoValue
    /\ resolved' = EmptyConfig
    /\ matched' = FALSE

SetConfig(kwargs) ==
    /\ config' = set_config(config, kwargs)
    /\ configured' = Merge(configured, kwargs)
    /\ cfgOp' = "set_config"
    /\ fetched' = EmptyConfig
    /\ ForgetResolution
    /\ UNCHANGED <<defaults, remembered>>

UpdateConfig(upd) ==
    /\ config' = update_config(config, upd)
    /\ configured' = Merge(configured, upd)
    /\ cfgOp' = "update_config"
    /\ fetched' = EmptyConfig
    /\ ForgetResolution
    /\ UNCHANGED <<defaults, remembered>>

GetConfig ==
    /\ fetched' = get_config(config)
    /\ cfgOp' = "get_config"
    /\ ForgetResolution
    /\ UNCHANGED <<defaults, config, configured, remembered>>

GetParam(p, d) ==
    /\ fetched' = [q \in Params |->
                     IF q = p THEN get_param(defaults, config, p, d)
                     ELSE NoValue]
    /\ cfgOp' = "get_param"
    /\ ForgetResolution
    /\ UNCHANGED <<defaults, config, configured, remembered>>

GetProviderParams(kw, sp) ==
    LET r == get_provider_params(defaults, config, kw, sp)
    IN /\ resolved' = r.params
       /\ config' = r.config
       /\ lastKw' = kw
       /\ lastSp' = sp
       /\ cfgOp' = "get_provider_params"
       /\ fetched' = EmptyConfig
       /\ UNCHANGED <<defaults, configured, remembered, matched>>

\* The same call, observed over a run of calls: the first call is kept in
\* remembered; a later call is recorded in resolved when its overrides and
\* system_prompt are those of the remembered call, and noted in
\* remembered.between when they are not.
GetProviderParamsAgain(kw, sp) ==
    LET r == get_provider_params(defaults, config, kw, sp)
        same == remembered.set /\ remembered.kw = kw /\ remembered.sp = sp
    IN /\ config' = r.config
       /\ remembered' = IF remembered.set
                        THEN [remembered EXCEPT
                                !.between = remembered.between \/ ~same]
                        ELSE [set |-> TRUE, kw |-> kw, sp |-> sp,
                              res |-> r.params, between |-> FALSE]
       /\ matched' = same
       /\ resolved' = IF same THEN r.params ELSE EmptyConfig
       /\ lastKw' = IF same THEN kw ELSE EmptyConfig
       /\ lastSp' = IF same THEN sp ELSE NoValue
       /\ cfgOp' = IF remembered.set THEN "get_provider_params" ELSE "first"
       /\ fetched' = EmptyConfig
       /\ UNCHANGED <<defaults, configured>>

NextCfg ==
    \/ \E kwargs \in Configs : SetConfig(kwargs)
    \/ \E upd \in Configs : UpdateConfig(upd)
    \/ GetConfig
    \/ \E p \in Params, d \in {NoValue} \cup Values : GetParam(p, d)
    \/ \E kw \in Kwargs, sp \in {NoValue} \cup Values : GetProviderParams(kw, sp)

NextDet ==
    \/ \E kw \in Kwargs, sp \in {NoValue} \cup Values :
          GetProviderParamsAgain(kw, sp)
    \/ GetConfig


\* -------------------------------------------------------------- query.py

\* Python None, for an option not given or an environment variable not set
None == "<None>"

Providers == {"openai", "anthropic", "ollama", "huggingface"}

PROVIDER_DEFAULTS ==
    [p \in Providers |->
        CASE p = "openai" -> "gpt-4o"
          [] p = "anthropic" -> "claude-3-5-haiku-20241022"
          [] p = "ollama" -> "phi4-mini:latest"
          [] p = "huggingface" -> "microsoft/Phi-4-mini-instruct"]

\* Providers that always require API keys
required_api_keys ==
    [p \in {"openai", "anthropic"} |->
        IF p = "openai" THEN "OPENAI_API_KEY" ELSE "ANTHROPIC_API_KEY"]

\* f"{args.provider.upper()}_API_KEY"
UpperApiKeyVar(p) ==
    CASE p = "openai" -> "OPENAI_API_KEY"
      [] p = "anthropic" -> "ANTHROPIC_API_KEY"
      [] p = "ollama" -> "OLLAMA_API_KEY"
      [] p = "huggingface" -> "HUGGINGFACE_API_KEY"

EnvVars == {UpperApiKeyVar(p) : p \in Providers}

\* truth value of an optional string: None and "" are false
TruthyNotNone(v) == v # None
Truthy(v) == v # None /\ v # ""

\* a or b
Or(a, b) == IF Truthy(a) THEN a ELSE b

NoCliConfig == [api_key |-> None, model |-> None, implementation |-> None]

\* lines 85-98: the api key entry of config; exits is the sys.exit(1)
ApiKeyStep(prov, key, env) ==
    IF prov \in DOMAIN required_api_keys
    THEN LET api_key == Or(key, env[required_api_keys[prov]])
         IN IF ~Truthy(api_key)
            THEN [exits |-> TRUE, api_key |-> None]
            ELSE [exits |-> FALSE, api_key |-> api_key]
    ELSE IF Truthy(key)
         THEN [exits |-> FALSE, api_key |-> key]
         ELSE IF Truthy(env[UpperApiKeyVar(prov)])
              THEN [exits |-> FALSE, api_key |-> env[UpperApiKeyVar(prov)]]
              ELSE [exits |-> FALSE, api_key |-> None]

\* lines 100-110: the model entry of config
ModelStep(prov, model) ==
    IF Truthy(model) THEN model
    ELSE IF Truthy(PROVIDER_DEFAULTS[prov]) THEN PROVIDER_DEFAULTS[prov]
         ELSE None

\* lines 112-115
ImplementationStep(prov, impl) ==
    IF prov = "huggingface" /\ Truthy(impl) THEN impl ELSE None

InitCli ==
    /\ provider \in Providers
    /\ argApiKey \in {None, "", "sk-arg"}
    /\ argModel \in {None, "my-model"}
    /\ argFile \in {None, "image.png"}
    /\ argDebug \in BOOLEAN
    /\ argImpl \in {None, "langchain"}
    /\ environ \in [EnvVars -> {None, "", "sk-env"}]
    /\ pc = "start"
    /\ cliConfig = NoCliConfig
    /\ createCalls = 0
    /\ debugWritten = FALSE
    /\ generateCalls = 0
    /\ responsePrinted = FALSE
    /\ errorPrinted = FALSE
    /\ exitStatus = <<>>
    /\ failed = "none"

\* sys.exit(code): SystemExit is not an Exception, so the except clause of
\* main lets it through and the interpreter exits with the code.
SysExit(code, why) ==
    /\ pc' = "exited"
    /\ exitStatus' = <<code>>
    /\ failed' = why

\* lines 178-180: except Exception as e: print the error, sys.exit(1)
OnExceptionCarryOn(step) ==
    /\ errorPrinted' = TRUE
    /\ pc' = "generate"
    /\ exitStatus' = <<>>
    /\ failed' = step
OnException(step) ==
    /\ errorPrinted' = TRUE
    /\ SysExit(1, step)

\* lines 83-115: build the provider configuration
BuildConfig ==
    /\ pc = "start"
    /\ LET k == ApiKeyStep(provider, argApiKey, environ)
       IN IF k.exits
          THEN /\ errorPrinted' = TRUE
               /\ SysExit(1, "no_key")
               /\ UNCHANGED cliConfig
          ELSE /\ cliConfig' =
                    [api_key |-> k.api_key,
                     model |-> ModelStep(provider, argModel),
                     implementation |-> ImplementationStep(provider, argImpl)]
               /\ pc' = "create"
               /\ UNCHANGED <<errorPrinted, exitStatus, failed>>
    /\ UNCHANGED <<argVars, createCalls, debugWritten, generateCalls,
                   responsePrinted>>

\* line 118: create_llm(args.provider, **config), which may raise
CreateLLM(ok) ==
    /\ pc = "create"
    /\ createCalls' = createCalls + 1
    /\ IF ok
       THEN /\ pc' = IF argDebug THEN "debug" ELSE "generate"
            /\ UNCHANGED <<errorPrinted, exitStatus, failed>>
       ELSE OnException("create_llm")
    /\ UNCHANGED <<argVars, cliConfig, debugWritten, generateCalls,
                   responsePrinted>>

\* lines 124-164: process the file and write logs/request.json; either
\* may raise
DebugCapture(outcome) ==
    /\ pc = "debug"
    /\ (outcome = "file_error" => argFile # None)
    /\ IF outcome = "ok"
       THEN /\ debugWritten' = TRUE
            /\ pc' = "generate"
            /\ UNCHANGED <<errorPrinted, exitStatus, failed>>
       ELSE /\ OnException(outcome)
            /\ UNCHANGED debugWritten
    /\ UNCHANGED <<argVars, cliConfig, createCalls, generateCalls,
                   responsePrinted>>

\* lines 167-171: llm.generate(prompt, files), which may raise
Generate(ok) ==
    /\ pc = "generate"
    /\ generateCalls < MaxCalls
    /\ generateCalls' = generateCalls + 1
    /\ IF ok
       THEN /\ pc' = "print"
            /\ UNCHANGED <<errorPrinted, exitStatus, failed>>
       ELSE OnException("generate")
    /\ UNCHANGED <<argVars, cliConfig, createCalls, debugWritten,
                   responsePrinted>>

\* lines 173-176, then main returns and the interpreter exits with 0
PrintResponse ==
    /\ pc = "print"
    /\ responsePrinted' = TRUE
    /\ pc' = "exited"
    /\ exitStatus' = <<0>>
    /\ UNCHANGED <<argVars, cliConfig, createCalls, debugWritten,
                   generateCalls, errorPrinted, failed>>

NextCli ==
    \/ BuildConfig
    \/ \E ok \in BOOLEAN : CreateLLM(ok)
    \/ \E outcome \in {"ok", "file_error", "write_error"} :
          DebugCapture(outcome)
    \/ \E ok \in BOOLEAN : Generate(ok)
    \/ PrintResponse


InitOut ==
    /\ output_handlers = <<>>
    /\ lastOp = "init"
    /\ lastArg = NoHandler
    /\ given = NoOutput
    /\ returned = NoOutput
    /\ raised = FALSE
    /\ invoked = <<>>
    /\ logged = <<>>
    /\ genLen = 0
    /\ genPos = 0
    /\ received = <<>>

\* the last call's observations are dropped by the list operations
ForgetCall ==
    /\ given' = NoOutput
    /\ returned' = NoOutput
    /\ raised' = FALSE
    /\ invoked' = <<>>
    /\ logged' = <<>>
    /\ genLen' = 0
    /\ genPos' = 0
    /\ received' = <<>>

AddOutputHandler(h) ==
    /\ Len(output_handlers) < MaxHandlers
    /\ output_handlers' = add_output_handler(output_handlers, h)
    /\ lastOp' = "add"
    /\ lastArg' = h
    /\ ForgetCall

RemoveOutputHandler(h) ==
    /\ output_handlers' = remove_output_handler(output_handlers, h)
    /\ lastOp' = "remove"
    /\ lastArg' = h
    /\ ForgetCall

ClearOutputHandlers ==
    /\ output_handlers' = clear_output_handlers(output_handlers)
    /\ lastOp' = "clear"
    /\ lastArg' = NoHandler
    /\ ForgetCall

\* A provider passes its generated output (a str, or a fresh generator of
\* n chunks) through _handle_output.
HandleOutput(out, n) ==
    LET r == handle_output(output_handlers, out, 0, n)
    IN /\ given' = out
       /\ genLen' = n
       /\ returned' = r.ret
       /\ raised' = r.raised
       /\ invoked' = r.invoked
       /\ logged' = r.logged
       /\ genPos' = r.pos
       /\ received' = <<>>
       /\ lastOp' = "handle"
       /\ lastArg' = NoHandler
       /\ UNCHANGED output_handlers

\* The caller of generate(stream=True) iterates the generator it got back.
CallerIterates ==
    /\ lastOp = "handle"
    /\ ~raised
    /\ returned.kind = "gen"
    /\ received' = Iterate(genPos, genLen)
    /\ genPos' = genLen
    /\ lastOp' = "iterate"
    /\ UNCHANGED <<output_handlers, lastArg, given, returned, raised,
                   invoked, logged, genLen>>

NextOut ==
    \/ \E h \in Handlers : AddOutputHandler(h)
    \/ \E h \in Handlers : RemoveOutputHandler(h)
    \/ ClearOutputHandlers
    \/ \E out \in StrOutputs : HandleOutput(out, 0)
    \/ \E n \in 0..MaxChunks : HandleOutput(GenOutput, n)
    \/ CallerIterates

\* the part of the state a specification does not exercise stays put
IdleOut == InitOut
IdleCfg ==
    /\ defaults = EmptyConfig
    /\ config = EmptyConfig
    /\ configured = EmptyConfig
    /\ cfgOp = "init"
    /\ lastKw = EmptyConfig
    /\ lastSp = NoValue
    /\ resolved = EmptyConfig
    /\ fetched = EmptyConfig
    /\ remembered = NoCall
    /\ matched = FALSE

IdleCli ==
    /\ provider = "openai"
    /\ argApiKey = None
    /\ argModel = None
    /\ argFile = None
    /\ argDebug = FALSE
    /\ argImpl = None
    /\ environ = [v \in EnvVars |-> None]
    /\ pc = "idle"
    /\ cliConfig = NoCliConfig
    /\ createCalls = 0
    /\ debugWritten = FALSE
    /\ generateCalls = 0
    /\ responsePrinted = FALSE
    /\ errorPrinted = FALSE
    /\ exitStatus = <<>>
    /\ failed = "none"

Init == InitOut /\ IdleCfg /\ IdleCli
Next == NextOut /\ UNCHANGED <<cfgVars, cliVars>>
Spec == Init /\ [][Next]_vars

InitCfgOnly == InitCfg /\ IdleOut /\ IdleCli
NextCfgOnly == NextCfg /\ UNCHANGED <<outVars, cliVars>>
SpecCfg == InitCfgOnly /\ [][NextCfgOnly]_vars

NextDetOnly == NextDet /\ UNCHANGED <<outVars, cliVars>>
SpecDet == InitCfgOnly /\ [][NextDetOnly]_vars

InitCliOnly == InitCli /\ IdleOut /\ IdleCfg
NextCliOnly == NextCli /\ UNCHANGED <<outVars, cfgVars>>
SpecCli == InitCliOnly /\ [][NextCliOnly]_vars

\* ------------------------------------------------ output-handler claims

\* C1: whatever handlers are registered (none, some raising, all raising)
\* and whatever output is passed, _handle_output returns the very output
\* it was given and no exception reaches its caller.
C1_ReturnsGivenOutput ==
    lastOp = "handle" => (returned = given /\ ~raised)

\* a call with at least two handlers, all of which raised, on a str
C1_Witness ==
    /\ lastOp = "handle"
    /\ given.kind = "str"
    /\ Len(output_handlers) >= 2
    /\ logged = output_handlers

\* C5: a stream passed through the handler chain reaches the caller whole:
\* iterating the returned generator yields every chunk, in order.
C5_CallerGetsEveryChunk ==
    lastOp = "iterate" => received = [k \in 1..genLen |-> k]

\* C8: _handle_output invokes every registered handler exactly once per
\* call, in registration order (duplicates as often as registered), and a
\* handler that raises is logged without stopping the ones after it.
C8_EveryHandlerInvokedInOrder ==
    lastOp = "handle" =>
        /\ invoked = output_handlers
        /\ SelectSeq(logged, LAMBDA h : h = "raiser")
             = SelectSeq(output_handlers, LAMBDA h : h = "raiser")
        /\ \A i \in 1..Len(logged) : Contains(output_handlers, logged[i])

\* a call where a raising handler precedes a handler registered twice
C8_Witness ==
    /\ lastOp = "handle"
    /\ Len(output_handlers) = 3
    /\ output_handlers[1] = "raiser"
    /\ output_handlers[2] = output_handlers[3]
    /\ Len(invoked) = 3

\* C9: remove_output_handler(h) deletes the earliest occurrence of h and
\* nothing else, and is a no-op when h is not registered; add appends,
\* clear empties, and no other operation touches the list.
C9_HandlerListOps ==
    [][ LET old == output_handlers
            new == output_handlers'
        IN CASE lastOp' = "add" ->
                  /\ Len(new) = Len(old) + 1
                  /\ new[Len(new)] = lastArg'
                  /\ \A k \in 1..Len(old) : new[k] = old[k]
             [] lastOp' = "remove" ->
                  IF \E i \in 1..Len(old) : old[i] = lastArg'
                  THEN \E i \in 1..Len(old) :
                          /\ old[i] = lastArg'
                          /\ \A j \in 1..(i - 1) : old[j] # lastArg'
                          /\ Len(new) = Len(old) - 1
                          /\ \A k \in 1..Len(new) :
                                new[k] = IF k < i THEN old[k] ELSE old[k + 1]
                  ELSE new = old
             [] lastOp' = "clear" -> Len(new) = 0
             [] OTHER -> new = old ]_vars

\* h was registered more than once, and one occurrence has been removed
C9_Witness ==
    /\ lastOp = "remove"
    /\ Len(output_handlers) = 2
    /\ output_handlers[2] = lastArg
    /\ output_handlers[1] # lastArg

\* --------------------------------------------------- configuration claims

\* C2: for every parameter the resolved value is the per-call override when
\* one is given, else the instance configuration value when one is set,
\* else the provider default; the system_prompt argument of the call
\* overrides the configured system prompt.
C2_OverridePrecedence ==
    cfgOp = "get_provider_params" =>
        \A p \in Params :
            resolved[p] =
                IF p = "system_prompt" /\ lastSp # NoValue THEN lastSp
                ELSE IF lastKw[p] # NoValue THEN lastKw[p]
                ELSE IF configured[p] # NoValue THEN configured[p]
                ELSE defaults[p]

\* one resolution in which each layer decides a parameter: model from the
\* defaults, temperature from the override against a configured value,
\* system prompt from the argument against a configured one
C2_Witness ==
    /\ cfgOp = "get_provider_params"
    /\ lastKw["model"] = NoValue
    /\ configured["model"] = NoValue
    /\ resolved["model"] # NoValue
    /\ lastKw["temperature"] # NoValue
    /\ configured["temperature"] # NoValue
    /\ lastKw["temperature"] # configured["temperature"]
    /\ lastSp # NoValue
    /\ configured["system_prompt"] # NoValue
    /\ lastSp # configured["system_prompt"]

\* C3: what get_config and get_param return changes only in a set_config or
\* update_config step; resolving a call's parameters leaves it as it was.
C3_ResolutionLeavesConfig ==
    [][ cfgOp' \notin {"set_config", "update_config"} =>
          /\ get_config(config') = get_config(config)
          /\ \A p \in Params, d \in {NoValue} \cup Values :
                get_param(defaults', config', p, d)
                  = get_param(defaults, config, p, d) ]_vars

\* a resolution whose overrides and system prompt differ from the
\* configured values has been made
C3_Witness ==
    /\ cfgOp = "get_provider_params"
    /\ lastKw["model"] # NoValue
    /\ lastSp # NoValue
    /\ resolved["model"] # get_param(defaults, config, "model", NoValue)
    /\ resolved["system_prompt"]
         # get_param(defaults, config, "system_prompt", NoValue)

C6_FailurePropagates ==
    /\ generateCalls <= 1
    /\ createCalls <= 1
    /\ failed \in {"create_llm", "file_error", "write_error", "generate"} =>
          /\ pc = "exited"
          /\ exitStatus = <<1>>
          /\ ~responsePrinted

\* generate raised after the debug file had been written
C6_Witness ==
    /\ failed = "generate"
    /\ debugWritten
    /\ generateCalls = 1
    /\ pc = "exited"

\* C7: openai and anthropic without a non-empty key from --api-key or the
\* provider's environment variable end with status 1 before create_llm, the
\* debug file and generate; ollama and huggingface never stop for a missing
\* key, and their configuration holds a key exactly when one was supplied.
C7_ApiKeyGate ==
    LET var == CASE provider = "openai" -> "OPENAI_API_KEY"
                 [] provider = "anthropic" -> "ANTHROPIC_API_KEY"
                 [] provider = "ollama" -> "OLLAMA_API_KEY"
                 [] provider = "huggingface" -> "HUGGINGFACE_API_KEY"
        nonEmpty(v) == v \notin {None, ""}
        supplied == nonEmpty(argApiKey) \/ nonEmpty(environ[var])
    IN pc \notin {"idle", "start"} =>
          IF provider \in {"openai", "anthropic"}
          THEN IF supplied
               THEN failed # "no_key" /\ nonEmpty(cliConfig.api_key)
               ELSE /\ pc = "exited"
                    /\ exitStatus = <<1>>
                    /\ createCalls = 0
                    /\ ~debugWritten
                    /\ generateCalls = 0
                    /\ ~responsePrinted
          ELSE /\ failed # "no_key"
               /\ (pc = "exited" => createCalls = 1)
               /\ (cliConfig.api_key # None <=> supplied)

\* openai was run with --api-key "" and an empty OPENAI_API_KEY
C7_Witness ==
    /\ provider = "openai"
    /\ argApiKey = ""
    /\ environ["OPENAI_API_KEY"] = ""
    /\ argDebug
    /\ pc = "exited"

====
